---------------------------- MODULE Spec2Model ----------------------------
(***************************************************************************)
(* Model of the container utilization reporter:                            *)
(*   src/metrics_client.py                  MetricsClient (HTTP service)   *)
(*   src/metrics_server/metrics_server.py   get_metrics and the formatters *)
(*   src/kube-utilization-monitor.py        UtilizationMonitor (CLI)       *)
(*                                                                         *)
(* Conventions.                                                            *)
(*  - A Python float or int is an exact rational <<n, d>> in lowest terms  *)
(*    with d > 0 (floating point rounding is not modelled).                *)
(*  - A container or controller name is a sequence of text chunks, so that *)
(*    the substring test of the code is a test for a contiguous run.       *)
(*  - asyncio is cooperative: a coroutine runs without interruption from   *)
(*    one suspension (an await on backend I/O) to the next, so one action  *)
(*    of the model is one such run.                                        *)
(***************************************************************************)
EXTENDS Integers, Sequences, FiniteSets, TLC

\* ------------------------------------------------------------------ bounds
\* Concurrent HTTP requests served by the process (specification SpecGate).
NumRequests == 3
\* Series the backend yields in total to the queries of one aggregation call.
MaxSeries == 2
\* Longest record list handed to the table formatters (SpecFormat).
MaxRecords == 3

\* --------------------------------------------------------- program constants
\* asyncio.Semaphore(value=10)
SemaphoreValue == 10

Requests == 1 .. NumRequests

\* The four coroutines asyncio.gather is given, in argument order.
HandlerOrder == <<"avg_request_utilization", "max_usage", "avg_usage", "request">>
Handlers == {HandlerOrder[i] : i \in 1 .. Len(HandlerOrder)}

\* 'overprovisioner'
OVERPROVISIONER == <<"overprovisioner">>

\* ---------------------------------------------------------------- rationals
RECURSIVE GCD(_, _)
GCD(a, b) == IF b = 0 THEN a ELSE GCD(b, a % b)

Abs(n) == IF n < 0 THEN -n ELSE n

\* n / d in lowest terms, d > 0.
Rat(n, d) ==
  LET s == IF d < 0 THEN -1 ELSE 1
      g == GCD(Abs(n), Abs(d))
  IN  <<(s * n) \div g, (s * d) \div g>>

RatOf(i) == <<i, 1>>
Zero == RatOf(0)
RatAdd(a, b) == Rat(a[1] * b[2] + b[1] * a[2], a[2] * b[2])
RatSub(a, b) == Rat(a[1] * b[2] - b[1] * a[2], a[2] * b[2])
RatMulInt(a, k) == Rat(a[1] * k, a[2])
RatDivInt(a, k) == Rat(a[1], a[2] * k)
RatLess(a, b) == a[1] * b[2] < b[1] * a[2]
RatLeq(a, b) == a[1] * b[2] <= b[1] * a[2]
\* Python's max(a, b): the first argument unless the second is greater.
RatMax(a, b) == IF RatLess(a, b) THEN b ELSE a
\* Python's int(x): truncation toward zero.
Trunc(a) == IF a[1] >= 0 THEN a[1] \div a[2] ELSE -((-a[1]) \div a[2])

RECURSIVE SumSeq(_)
SumSeq(s) == IF s = <<>> THEN 0 ELSE s[1] + SumSeq(Tail(s))

RECURSIVE MaxSeq(_)
\* Python's max(points, key=...): the first of the greatest.
MaxSeq(s) ==
  IF Len(s) = 1 THEN s[1]
  ELSE LET m == MaxSeq(Tail(s)) IN IF m > s[1] THEN m ELSE s[1]

\* statistics.mean([...])
Mean(points) == Rat(SumSeq(points), Len(points))
\* max(metrics.points, key=...).value
PointMax(points) == RatOf(MaxSeq(points))
\* metrics.points[0].value
PointFirst(points) == RatOf(points[1])


\* ------------------------------------------------------------------ inputs
\* Container identities the backend groups by: (namespace, container,
\* top-level controller).  Kubernetes namespaces are lower-case DNS labels.
Keys ==
  { [namespace |-> "default", container_name |-> <<"app">>,
     top_level_controller_name |-> <<"web">>],
    [namespace |-> "infra",
     container_name |-> <<"gke-", "overprovisioner", "-pause">>,
     top_level_controller_name |-> <<"spare">>] }

\* The points of one series, newest first, as the backend returns them: a
\* single point, and two points whose first, mean (3/2) and maximum differ.
PointSeqs == { <<3>>, <<1, 2>> }

\* Namespace allow-lists a caller may pass; <<>> is "not given" (None).
NamespaceLists == { <<>>, <<"ns-a">>, <<"ns-a", "ns-b">>, <<"kube-system">> }

MetricTypes == {"memory", "cpu"}
OutputFormats == {"table", "json", "csv"}

\* ------------------------------------------------------- the eight queries
\* metric.type of the query a handler issues.
QueryMetric(mt, h) ==
  CASE mt = "memory" /\ h = "avg_request_utilization" ->
         "kubernetes.io/container/memory/request_utilization"
    [] mt = "memory" /\ h = "max_usage" -> "kubernetes.io/container/memory/used_bytes"
    [] mt = "memory" /\ h = "avg_usage" -> "kubernetes.io/container/memory/used_bytes"
    [] mt = "memory" /\ h = "request" -> "kubernetes.io/container/memory/request_bytes"
    [] mt = "cpu" /\ h = "avg_request_utilization" ->
         "kubernetes.io/container/cpu/request_utilization"
    [] mt = "cpu" /\ h = "max_usage" -> "kubernetes.io/container/cpu/core_usage_time"
    [] mt = "cpu" /\ h = "avg_usage" -> "kubernetes.io/container/cpu/core_usage_time"
    [] mt = "cpu" /\ h = "request" -> "kubernetes.io/container/cpu/request_cores"

\* per_series_aligner of the query.
QueryAligner(mt, h) ==
  CASE mt = "memory" /\ h = "avg_request_utilization" -> "ALIGN_MEAN"
    [] mt = "memory" /\ h = "max_usage" -> "ALIGN_MAX"
    [] mt = "memory" /\ h = "avg_usage" -> "ALIGN_MEAN"
    [] mt = "memory" /\ h = "request" -> "ALIGN_MAX"
    [] mt = "cpu" /\ h = "avg_request_utilization" -> "ALIGN_MEAN"
    [] mt = "cpu" /\ h = "max_usage" -> "ALIGN_RATE"
    [] mt = "cpu" /\ h = "avg_usage" -> "ALIGN_RATE"
    [] mt = "cpu" /\ h = "request" -> "ALIGN_MEAN"

\* cross_series_reducer of the query.
QueryReducer(mt, h) ==
  CASE mt = "memory" /\ h = "avg_request_utilization" -> "REDUCE_MEAN"
    [] mt = "memory" /\ h = "max_usage" -> "REDUCE_MAX"
    [] mt = "memory" /\ h = "avg_usage" -> "REDUCE_MEAN"
    [] mt = "memory" /\ h = "request" -> "REDUCE_MAX"
    [] mt = "cpu" /\ h = "avg_request_utilization" -> "REDUCE_MEAN"
    [] mt = "cpu" /\ h = "max_usage" -> "REDUCE_MAX"
    [] mt = "cpu" /\ h = "avg_usage" -> "REDUCE_MEAN"
    [] mt = "cpu" /\ h = "request" -> "REDUCE_MAX"

\* The ContainerMetrics field the handler assigns.
HandlerField(mt, h) ==
  CASE mt = "memory" /\ h = "avg_request_utilization" -> "avg_memory_request_utilization"
    [] mt = "memory" /\ h = "max_usage" -> "max_memory_usage"
    [] mt = "memory" /\ h = "avg_usage" -> "avg_memory_usage"
    [] mt = "memory" /\ h = "request" -> "memory_request"
    [] mt = "cpu" /\ h = "avg_request_utilization" -> "avg_cpu_request_utilization"
    [] mt = "cpu" /\ h = "max_usage" -> "max_cpu_usage"
    [] mt = "cpu" /\ h = "avg_usage" -> "avg_cpu_usage"
    [] mt = "cpu" /\ h = "request" -> "cpu_request"

\* The value MetricsClient's handler assigns from the points of one series.
ClientValue(mt, h, points) ==
  CASE mt = "memory" /\ h = "avg_request_utilization" -> Mean(points)
    [] mt = "memory" /\ h = "max_usage" -> PointMax(points)
    [] mt = "memory" /\ h = "avg_usage" -> Mean(points)
    [] mt = "memory" /\ h = "request" -> PointFirst(points)
    [] mt = "cpu" /\ h = "avg_request_utilization" -> Mean(points)
    [] mt = "cpu" /\ h = "max_usage" -> PointMax(points)
    [] mt = "cpu" /\ h = "avg_usage" -> PointFirst(points)
    [] mt = "cpu" /\ h = "request" -> PointFirst(points)

\* The value UtilizationMonitor's handler assigns: always the first point.
MonitorValue(h, points) == PointFirst(points)

HandlerValue(e, mt, h, points) ==
  IF e = "cli" THEN MonitorValue(h, points) ELSE ClientValue(mt, h, points)

\* ------------------------------------------------------------ query filter
RECURSIVE JoinOr(_)
\* ' OR '.join(f'resource.labels.namespace_name = "{namespace}"' ...)
JoinOr(nss) ==
  IF nss = <<>> THEN <<>>
  ELSE IF Len(nss) = 1 THEN << <<"resource.labels.namespace_name", "=", nss[1]>> >>
  ELSE << <<"resource.labels.namespace_name", "=", nss[1]>>, <<"OR">> >>
       \o JoinOr(Tail(nss))

MetricClause(mt, h) == <<"metric.type", "=", QueryMetric(mt, h)>>
NamespaceClause(nss) == << <<"AND">>, <<"(">> >> \o JoinOr(nss) \o << <<")">> >>
NotKubeSystem == << <<"AND">>, <<"resource.labels.namespace_name", "!=", "kube-system">> >>

\* MetricsClient.query: the filter string, as its sequence of clauses.
ClientFilter(mt, h, nss) ==
  LET f1 == <<MetricClause(mt, h)>> \o NotKubeSystem
  IN  IF nss # <<>> THEN f1 \o NamespaceClause(nss) ELSE f1

\* UtilizationMonitor.query: the filter string, as its sequence of clauses.
MonitorFilter(mt, h, nss) ==
  LET f1 == <<MetricClause(mt, h)>>
  IN  IF nss # <<>> THEN f1 \o NamespaceClause(nss) ELSE f1

\* The request handed to list_time_series.
ListTimeSeriesRequest(e, mt, h, nss) ==
  [ filter |-> IF e = "cli" THEN MonitorFilter(mt, h, nss) ELSE ClientFilter(mt, h, nss),
    aligner |-> QueryAligner(mt, h),
    reducer |-> QueryReducer(mt, h) ]

\* ------------------------------------------------------- ContainerMetrics
\* ContainerMetrics(namespace=..., container_name=..., top_level_controller_name=...)
ContainerMetrics(key) ==
  [ namespace |-> key.namespace,
    container_name |-> key.container_name,
    top_level_controller_name |-> key.top_level_controller_name,
    memory_request |-> Zero, avg_memory_usage |-> Zero,
    avg_memory_request_utilization |-> Zero, max_memory_usage |-> Zero,
    unutilized_memory |-> Zero,
    cpu_request |-> Zero, avg_cpu_usage |-> Zero,
    avg_cpu_request_utilization |-> Zero, max_cpu_usage |-> Zero,
    unutilized_cpu |-> Zero ]

KeyOf(rec) ==
  [ namespace |-> rec.namespace, container_name |-> rec.container_name,
    top_level_controller_name |-> rec.top_level_controller_name ]

\* self.container_metrics is a dict: a list of records in insertion order,
\* at most one per key.
HasKey(cm, key) == \E i \in 1 .. Len(cm) : KeyOf(cm[i]) = key
IndexOfKey(cm, key) == CHOOSE i \in 1 .. Len(cm) : KeyOf(cm[i]) = key

\* upsert_container: the dict after the call.
UpsertContainer(cm, key) ==
  IF HasKey(cm, key) THEN cm ELSE Append(cm, ContainerMetrics(key))

\* Mutant: every series gets a fresh record in place of the one there.
HandleSeriesFresh(cm, key, fld, value) ==
  LET up == UpsertContainer(cm, key)
  IN  [up EXCEPT ![IndexOfKey(up, key)] = [ContainerMetrics(key) EXCEPT ![fld] = value]]

\* container = self.upsert_container(metrics); container.<field> = value
HandleSeries(cm, key, fld, value) ==
  LET up == UpsertContainer(cm, key)
  IN  [up EXCEPT ![IndexOfKey(up, key)][fld] = value]

\* 'overprovisioner' in name
Contains(name, needle) ==
  \E i \in 1 .. (Len(name) - Len(needle) + 1) :
     SubSeq(name, i, i + Len(needle) - 1) = needle

\* Mutant: the difference without the clamp at 0.
UnutilizedUnclamped(request, max_usage) == RatSub(request, max_usage)

\* max(0, request - max_usage)
Unutilized(request, max_usage) == RatMax(Zero, RatSub(request, max_usage))

\* Mutant: no record is dropped.
DropNothing(cm) == cm

RECURSIVE DropOverprovisioner(_)
\* del self.container_metrics[key] for every overprovisioner record.
DropOverprovisioner(cm) ==
  IF cm = <<>> THEN <<>>
  ELSE IF Contains(cm[1].container_name, OVERPROVISIONER)
       THEN DropOverprovisioner(Tail(cm))
       ELSE <<cm[1]>> \o DropOverprovisioner(Tail(cm))

\* Mutant: a record whose request was never set is dropped as well.
PostProcessWithRequestOnly(mt, cm) ==
  LET kept == SelectSeq(DropOverprovisioner(cm),
                 LAMBDA r : (IF mt = "memory" THEN r.memory_request
                             ELSE r.cpu_request) # Zero)
  IN  [ i \in 1 .. Len(kept) |->
          IF mt = "memory"
          THEN [kept[i] EXCEPT !.unutilized_memory =
                  Unutilized(kept[i].memory_request, kept[i].max_memory_usage)]
          ELSE [kept[i] EXCEPT !.unutilized_cpu =
                  Unutilized(kept[i].cpu_request, kept[i].max_cpu_usage)] ]

\* The loop after the gather of query_memory_utilization / query_cpu_utilization.
PostProcess(mt, cm) ==
  LET kept == DropOverprovisioner(cm)
  IN  [ i \in 1 .. Len(kept) |->
          IF mt = "memory"
          THEN [kept[i] EXCEPT !.unutilized_memory =
                  Unutilized(kept[i].memory_request, kept[i].max_memory_usage)]
          ELSE [kept[i] EXCEPT !.unutilized_cpu =
                  Unutilized(kept[i].cpu_request, kept[i].max_cpu_usage)] ]

\* The loop after the gather of UtilizationMonitor.query_metrics.
MonitorPostProcess(cm) == DropOverprovisioner(cm)

\* UtilizationMonitor's ContainerMetrics.unutilized_memory property.
UnutilizedProperty(rec) == Unutilized(rec.memory_request, rec.max_memory_usage)

\* ---------------------------------------------------------------- formatter
MiB == 1024 * 1024
GiB == 1024 * 1024 * 1024

\* Round half to even, as the '.0f' and '.0%' format specifications do.
RoundHalfEven(a) ==
  LET q == a[1] \div a[2]
      twice == 2 * (a[1] - q * a[2])
  IN  IF twice < a[2] THEN q
      ELSE IF twice > a[2] THEN q + 1
      ELSE IF q % 2 = 0 THEN q ELSE q + 1

\* termcolor.colored(text=..., color=...)
Colored(text, color) == [text |-> text, color |-> color]
\* A cell printed without colour.
Plain(text) == [text |-> text, color |-> "none"]

\* percentage_gradient (both files)
PercentageGradient(value) ==
  LET color == IF RatLess(value, Rat(3, 10)) THEN "red"
               ELSE IF RatLess(value, Rat(6, 10)) THEN "yellow"
               ELSE "green"
  IN  Colored(RoundHalfEven(RatMulInt(value, 100)), color)

\* Mutant: the colour compares the exact amount, the text stays whole MiB.
MemoryBytesGradientExact(value) ==
  LET value_in_mb == Trunc(RatDivInt(value, MiB))
      color == IF RatLess(RatOf(200 * MiB), value) THEN "red"
               ELSE IF RatLess(RatOf(100 * MiB), value) THEN "yellow"
               ELSE "green"
  IN  Colored(value_in_mb, color)

\* memory_bytes_gradient, and mb_gradient of the CLI
MemoryBytesGradient(value) ==
  LET value_in_mb == Trunc(RatDivInt(value, MiB))
      color == IF value_in_mb > 200 THEN "red"
               ELSE IF value_in_mb > 100 THEN "yellow"
               ELSE "green"
  IN  Colored(value_in_mb, color)

\* cpu_gradient
CpuGradient(value) ==
  LET value_in_milicores == Trunc(RatMulInt(value, 1000))
      color == IF value_in_milicores > 1000 THEN "red"
               ELSE IF value_in_milicores > 100 THEN "yellow"
               ELSE "green"
  IN  Colored(value_in_milicores, color)

RECURSIVE InsertDesc(_, _, _)
\* x placed behind every element of the sorted list whose key is at least x's.
InsertDesc(sorted, x, fld) ==
  IF sorted = <<>> THEN <<x>>
  ELSE IF RatLess(sorted[1][fld], x[fld])
       THEN <<x>> \o sorted
       ELSE <<sorted[1]>> \o InsertDesc(Tail(sorted), x, fld)

\* Mutant: the list is left in the order it came in.
SortNothing(list, fld) == list

RECURSIVE SortDesc(_, _)
\* list.sort(key=lambda m: m.<fld>, reverse=True): stable, greatest first.
SortDesc(list, fld) ==
  IF list = <<>> THEN <<>>
  ELSE InsertDesc(SortDesc(SubSeq(list, 1, Len(list) - 1), fld), list[Len(list)], fld)

RECURSIVE SumField(_, _)
\* sum(metric.<fld> for metric in metrics)
SumField(list, fld) ==
  IF list = <<>> THEN Zero ELSE RatAdd(list[1][fld], SumField(Tail(list), fld))

\* f'{metric.top_level_controller_name}/{metric.container_name}'
DeploymentContainer(m) == m.top_level_controller_name \o <<"/">> \o m.container_name

MemoryRow(m) ==
  [ namespace |-> m.namespace,
    name |-> DeploymentContainer(m),
    utilization |-> PercentageGradient(m.avg_memory_request_utilization),
    unutilized |-> MemoryBytesGradient(m.unutilized_memory) ]

CpuRow(m) ==
  [ namespace |-> m.namespace,
    name |-> DeploymentContainer(m),
    utilization |-> PercentageGradient(m.avg_cpu_request_utilization),
    unutilized |-> CpuGradient(m.unutilized_cpu) ]

\* The rows of the table, or the exception the function ends with.  Of the
\* cells of a row, the model keeps the two labels and the two coloured ones.
TableOk(rows) == [kind |-> "table", rows |-> rows]
Raised(exc) == [kind |-> "error", error |-> exc]

\* format_memory_metrics_as_table
FormatMemoryMetricsAsTable(metrics) ==
  LET sorted == SortDesc(metrics, "unutilized_memory")
      rows == [i \in 1 .. Len(sorted) |-> MemoryRow(sorted[i])]
  IN  IF Len(sorted) = 0 THEN Raised("ZeroDivisionError")
      ELSE TableOk(Append(rows,
             [ namespace |-> "Total",
               name |-> <<>>,
               utilization |-> PercentageGradient(
                  RatDivInt(SumField(sorted, "avg_memory_request_utilization"),
                            Len(sorted))),
               unutilized |-> Plain(RoundHalfEven(
                  RatDivInt(SumField(sorted, "unutilized_memory"), GiB))) ]))

\* format_cpu_metrics_as_table
FormatCpuMetricsAsTable(metrics) ==
  LET sorted == SortDesc(metrics, "unutilized_cpu")
      rows == [i \in 1 .. Len(sorted) |-> CpuRow(sorted[i])]
  IN  IF Len(sorted) = 0 THEN Raised("ZeroDivisionError")
      ELSE TableOk(Append(rows,
             [ namespace |-> "Total",
               name |-> <<>>,
               unutilized |-> Plain(Trunc(
                  RatMulInt(SumField(sorted, "unutilized_cpu"), 1000))) ]))

\* The table of UtilizationMonitor.print_utilization; unutilized_memory is
\* the record's property there.
PrintUtilizationTable(container_metrics) ==
  LET withProperty == [i \in 1 .. Len(container_metrics) |->
         [container_metrics[i] EXCEPT
            !.unutilized_memory = UnutilizedProperty(container_metrics[i])]]
      sorted == SortDesc(withProperty, "unutilized_memory")
      rows == [i \in 1 .. Len(sorted) |-> MemoryRow(sorted[i])]
  IN  IF Len(sorted) = 0 THEN Raised("ZeroDivisionError")
      ELSE TableOk(Append(rows,
             [ namespace |-> "Total",
               name |-> <<>>,
               utilization |-> PercentageGradient(
                  RatDivInt(SumField(sorted, "avg_memory_request_utilization"),
                            Len(sorted))),
               unutilized |-> Plain(RoundHalfEven(
                  RatDivInt(SumField(sorted, "unutilized_memory"), GiB))) ]))

\* Mutant: every format that is not json is answered with the table.
FormatMetricsElseTable(mt, output_format, metrics) ==
  IF output_format = "json" THEN [kind |-> "json", body |-> metrics]
  ELSE IF mt = "memory" THEN FormatMemoryMetricsAsTable(metrics)
  ELSE FormatCpuMetricsAsTable(metrics)

\* format_metrics: the response of the HTTP handler.
FormatMetrics(mt, output_format, metrics) ==
  IF output_format = "table"
  THEN IF mt = "memory" THEN FormatMemoryMetricsAsTable(metrics)
       ELSE FormatCpuMetricsAsTable(metrics)
  ELSE IF output_format = "json" THEN [kind |-> "json", body |-> metrics]
  ELSE [kind |-> "null"]

\* -------------------------------------------------------------------- state
VARIABLES
  entry,              \* per request: "http" (get_metrics) or "cli" (main)
  metric_type,        \* per request: the metric family asked for
  namespaces,         \* per request: the namespace allow-list
  agg,                \* per request: where the aggregation call stands
  sem,                \* per client: request_semaphore's free slots
  hpc,                \* per request and handler: where the handler stands
  calls,              \* per request and handler: the list_time_series requests sent
  container_metrics,  \* per client: self.container_metrics
  returned,           \* per request and handler: the series the backend yielded
  result,             \* per request: the list the aggregation call returned
  response,           \* per request: what the caller got
  output_format,      \* per request: the output_format format_metrics was
                      \* called with, "unread" before that call
  metrics,            \* SpecFormat: the list handed to a table formatter
  table               \* SpecFormat: what the formatter produced

reqVars == <<entry, metric_type, namespaces, agg, sem, hpc, calls,
             container_metrics, returned, result, response, output_format>>
fmtVars == <<metrics, table>>
vars == <<entry, metric_type, namespaces, agg, sem, hpc, calls,
          container_metrics, returned, result, response, output_format,
          metrics, table>>

NoResponse == [kind |-> "none"]

\* The process before any aggregation call: the calls of the requests in
\* arriving draw their parameters from es, mts and nss (the CLI reports
\* memory only); the other requests never arrive.
InitRequests(arriving, es, mts, nss) ==
  /\ entry \in [Requests -> es \cup {"http"}]
  /\ metric_type \in [Requests -> mts \cup {"memory"}]
  /\ namespaces \in [Requests -> nss \cup {<<>>}]
  /\ \A c \in Requests :
        /\ c \in arriving => entry[c] \in es /\ metric_type[c] \in mts
                             /\ namespaces[c] \in nss
        /\ c \notin arriving => entry[c] = "http" /\ metric_type[c] = "memory"
                                /\ namespaces[c] = <<>>
        /\ entry[c] = "cli" => metric_type[c] = "memory"
  /\ agg = [c \in Requests |-> "idle"]
  /\ sem = [c \in Requests |-> SemaphoreValue]
  /\ hpc = [c \in Requests |-> [h \in Handlers |-> "start"]]
  /\ calls = [c \in Requests |-> [h \in Handlers |-> <<>>]]
  /\ container_metrics = [c \in Requests |-> <<>>]
  /\ returned = [c \in Requests |-> [h \in Handlers |-> {}]]
  /\ result = [c \in Requests |-> <<>>]
  /\ response = [c \in Requests |-> NoResponse]
  /\ output_format = [c \in Requests |-> "unread"]

\* ------------------------------------------------------------ the semaphore
\* Mutant: a gate that never has a free slot, as Semaphore(value=0) is.
LockedAlways(value) == TRUE

\* asyncio.Semaphore.locked()
Locked(value) == value = 0
\* Mutant: entering takes no slot.
AcquireNothing(value) == value

\* asyncio.Semaphore.acquire, when not locked
Acquire(value) == value - 1
\* Mutant: leaving 'async with' gives no slot back.
ReleaseNothing(value) == value

\* asyncio.Semaphore.release
Release(value) == value + 1

RECURSIVE AcquireEach(_, _)
\* The semaphore after each of n handlers in turn entered 'async with'.
AcquireEach(value, n) == IF n = 0 THEN value ELSE AcquireEach(Acquire(value), n - 1)

RECURSIVE NoneLocked(_, _)
\* None of n handlers entering in turn finds the semaphore locked.
NoneLocked(value, n) ==
  n = 0 \/ (~Locked(value) /\ NoneLocked(Acquire(value), n - 1))

\* ------------------------------------------------------------------ actions
\* An aggregation call begins.  HTTP: get_metrics builds a MetricsClient and
\* awaits query_memory_utilization or query_cpu_utilization; CLI: main builds
\* a UtilizationMonitor and print_utilization awaits query_metrics.  gather
\* starts the four handlers, and each runs without suspension through query():
\* it builds its filter, enters 'async with self.request_semaphore' and
\* suspends in list_time_series.  Four handlers never find the fresh
\* ten-slot semaphore locked.
StartRequest(c) ==
  /\ agg[c] = "idle"
  /\ NoneLocked(sem[c], Len(HandlerOrder))
  /\ agg' = [agg EXCEPT ![c] = "gathering"]
  /\ sem' = [sem EXCEPT ![c] = AcquireEach(sem[c], Len(HandlerOrder))]
  /\ hpc' = [hpc EXCEPT ![c] = [h \in Handlers |-> "calling"]]
  /\ calls' = [calls EXCEPT ![c] = [h \in Handlers |->
        Append(calls[c][h],
               ListTimeSeriesRequest(entry[c], metric_type[c], h, namespaces[c]))]]
  /\ UNCHANGED <<entry, metric_type, namespaces, container_metrics, returned,
                 result, response, output_format,
                 metrics, table>>

ReturnedKeys(c, h) == {s.key : s \in returned[c][h]}

RECURSIVE TotalSize(_, _)
TotalSize(f, hs) ==
  IF hs = {} THEN 0
  ELSE LET h == CHOOSE x \in hs : TRUE
       IN  Cardinality(f[h]) + TotalSize(f, hs \ {h})

\* Series the backend has yielded to the handlers of request c so far.
TotalReturned(c) == TotalSize(returned[c], Handlers)

\* One pass of a handler's 'async for' body on the series (key, points); last
\* tells whether the result sequence ends with it (the loop then ends without
\* suspending) or the handler suspends fetching more.
ConsumeSeries(c, h, key, points, last) ==
  /\ TotalReturned(c) < MaxSeries
  /\ key \notin ReturnedKeys(c, h)
  /\ container_metrics' = [container_metrics EXCEPT ![c] =
        HandleSeries(container_metrics[c], key, HandlerField(metric_type[c], h),
                     HandlerValue(entry[c], metric_type[c], h, points))]
  /\ returned' = [returned EXCEPT ![c][h] =
        returned[c][h] \cup {[key |-> key, points |-> points]}]
  /\ hpc' = [hpc EXCEPT ![c][h] = IF last THEN "done" ELSE "iterating"]

\* list_time_series returns a result sequence without series: the handler
\* leaves 'async with' (release) and its loop body never runs.
ReturnEmpty(c, h) ==
  /\ hpc[c][h] = "calling"
  /\ sem' = [sem EXCEPT ![c] = Release(sem[c])]
  /\ hpc' = [hpc EXCEPT ![c][h] = "done"]
  /\ UNCHANGED <<entry, metric_type, namespaces, agg, calls, container_metrics,
                 returned, result, response, output_format,
                 metrics, table>>

\* list_time_series returns a result sequence with series: the handler leaves
\* 'async with' (release) and handles the first series.
ReturnSeries(c, h) ==
  /\ hpc[c][h] = "calling"
  /\ sem' = [sem EXCEPT ![c] = Release(sem[c])]
  /\ \E key \in Keys, points \in PointSeqs, last \in BOOLEAN :
        ConsumeSeries(c, h, key, points, last)
  /\ UNCHANGED <<entry, metric_type, namespaces, agg, calls, result, response,
                 output_format, metrics, table>>

\* The result sequence yields its next series to the suspended handler.
NextSeries(c, h) ==
  /\ hpc[c][h] = "iterating"
  /\ \E key \in Keys, points \in PointSeqs, last \in BOOLEAN :
        ConsumeSeries(c, h, key, points, last)
  /\ UNCHANGED <<entry, metric_type, namespaces, agg, sem, calls, result,
                 response, output_format,
                 metrics, table>>

\* The result sequence ends while the handler is suspended in 'async for':
\* the page it fetched holds no further series, and the loop ends.
EndOfSeries(c, h) ==
  /\ hpc[c][h] = "iterating"
  /\ hpc' = [hpc EXCEPT ![c][h] = "done"]
  /\ UNCHANGED <<entry, metric_type, namespaces, agg, sem, calls,
                 container_metrics, returned, result, response, output_format,
                 metrics, table>>

\* list_time_series raises: the exception leaves 'async with' (release) and
\* ends the handler.
Raise(c, h) ==
  /\ hpc[c][h] = "calling"
  /\ sem' = [sem EXCEPT ![c] = Release(sem[c])]
  /\ hpc' = [hpc EXCEPT ![c][h] = "failed"]
  /\ UNCHANGED <<entry, metric_type, namespaces, agg, calls, container_metrics,
                 returned, result, response, output_format,
                 metrics, table>>

\* Fetching more of the result sequence raises inside 'async for'.
RaiseInLoop(c, h) ==
  /\ hpc[c][h] = "iterating"
  /\ hpc' = [hpc EXCEPT ![c][h] = "failed"]
  /\ UNCHANGED <<entry, metric_type, namespaces, agg, sem, calls,
                 container_metrics, returned, result, response, output_format,
                 metrics, table>>

\* Mutant: the wait ends with the first handler that returns.
GatherFirstCompleted(pcs) ==
  IF \E h \in Handlers : pcs[h] = "failed" THEN "raise"
  ELSE IF \E h \in Handlers : pcs[h] = "done" THEN "return"
  ELSE "wait"

\* Mutant: gather(..., return_exceptions=True), exceptions become results.
GatherReturnExceptions(pcs) ==
  IF \A h \in Handlers : pcs[h] \in {"done", "failed"} THEN "return" ELSE "wait"

\* await asyncio.gather(h1, h2, h3, h4): raises the first exception of a
\* handler, returns once all four have returned, waits otherwise.
GatherOutcome(pcs) ==
  IF \E h \in Handlers : pcs[h] = "failed" THEN "raise"
  ELSE IF \A h \in Handlers : pcs[h] = "done" THEN "return"
  ELSE "wait"

\* The gather raises: the exception leaves the aggregation call and its
\* caller.  HTTP: the request ends in an error while the other handlers, which
\* gather does not cancel, run on.  CLI: main ends, and asyncio.run cancels
\* what is left; a handler cancelled inside 'async with' releases its slot.
GatherRaise(c) ==
  /\ agg[c] = "gathering"
  /\ GatherOutcome(hpc[c]) = "raise"
  /\ agg' = [agg EXCEPT ![c] = "error"]
  /\ response' = [response EXCEPT ![c] = Raised("BackendError")]
  /\ IF entry[c] = "cli"
     THEN /\ hpc' = [hpc EXCEPT ![c] = [h \in Handlers |->
                 IF hpc[c][h] \in {"calling", "iterating"} THEN "cancelled"
                 ELSE hpc[c][h]]]
          /\ sem' = [sem EXCEPT ![c] =
                 sem[c] + Cardinality({h \in Handlers : hpc[c][h] = "calling"})]
     ELSE UNCHANGED <<hpc, sem>>
  /\ UNCHANGED <<entry, metric_type, namespaces, calls, container_metrics,
                 returned, result, output_format,
                 metrics, table>>

\* The gather returns.  HTTP: query_*_utilization drops the overprovisioner
\* records, computes the derived field and returns the list, which
\* get_metrics hands to format_metrics.  CLI: query_metrics drops the
\* overprovisioner records and print_utilization prints the table.
GatherReturn(c) ==
  /\ agg[c] = "gathering"
  /\ GatherOutcome(hpc[c]) = "return"
  /\ agg' = [agg EXCEPT ![c] = "returned"]
  /\ LET list == IF entry[c] = "cli" THEN MonitorPostProcess(container_metrics[c])
                 ELSE PostProcess(metric_type[c], container_metrics[c])
     IN  /\ container_metrics' = [container_metrics EXCEPT ![c] = list]
         /\ result' = [result EXCEPT ![c] = list]
         /\ IF entry[c] = "cli"
            THEN /\ response' = [response EXCEPT ![c] = PrintUtilizationTable(list)]
                 /\ UNCHANGED output_format
            ELSE \E fmt \in OutputFormats :
                   /\ output_format' = [output_format EXCEPT ![c] = fmt]
                   /\ response' = [response EXCEPT ![c] =
                         FormatMetrics(metric_type[c], fmt, list)]
  /\ UNCHANGED <<entry, metric_type, namespaces, sem, hpc, calls, returned,
                 metrics, table>>

\* ----------------------------------------------------------- specifications
\* Spec: one aggregation call (request 1), HTTP or CLI, against a backend
\* that yields up to MaxSeries series.
Init ==
  /\ InitRequests({1}, {"http", "cli"}, MetricTypes, {<<>>})
  /\ metrics = <<>>
  /\ table = NoResponse

Next ==
  \/ StartRequest(1)
  \/ GatherRaise(1)
  \/ GatherReturn(1)
  \/ \E h \in Handlers :
        \/ ReturnEmpty(1, h)
        \/ ReturnSeries(1, h)
        \/ NextSeries(1, h)
        \/ EndOfSeries(1, h)
        \/ Raise(1, h)
        \/ RaiseInLoop(1, h)

Spec == Init /\ [][Next]_vars

\* SpecLive: one HTTP aggregation call against a backend whose every call
\* returns and whose result sequences are finite (at most MaxSeries series
\* in all).  The event loop runs a task whenever one is ready: a returned
\* backend call resumes its handler, a fetched page resumes the handler's
\* loop, the finished gather resumes the aggregation call.  Every step
\* moves one task forward and none is undone, so fairness of the loop over
\* the handlers' steps together, and over the gather's return, is all the
\* progress of the call needs.
InitLive ==
  /\ InitRequests({1}, {"http"}, MetricTypes, {<<>>})
  /\ metrics = <<>>
  /\ table = NoResponse

NextLive ==
  \/ StartRequest(1)
  \/ GatherReturn(1)
  \/ \E h \in Handlers :
        \/ ReturnEmpty(1, h)
        \/ ReturnSeries(1, h)
        \/ NextSeries(1, h)
        \/ EndOfSeries(1, h)

\* The step of GatherReturn as agg shows it: within NextLive the steps that
\* take agg from "gathering" to "returned" are those of GatherReturn, and
\* both are enabled in the same states.
GatherReturned(c) ==
  /\ agg[c] = "gathering"
  /\ GatherOutcome(hpc[c]) = "return"
  /\ agg' = [agg EXCEPT ![c] = "returned"]

FairLive ==
  /\ WF_vars(StartRequest(1) \/ \E h \in Handlers :
                ReturnEmpty(1, h) \/ ReturnSeries(1, h)
                   \/ NextSeries(1, h) \/ EndOfSeries(1, h))
  /\ WF_agg(GatherReturned(1))

SpecLive == InitLive /\ [][NextLive]_vars /\ FairLive

\* SpecGate: NumRequests concurrent HTTP requests, each with its own
\* MetricsClient, against a backend that answers every query and holds no
\* series.
InitGate ==
  /\ InitRequests(Requests, {"http"}, {"memory"}, {<<>>})
  /\ metrics = <<>>
  /\ table = NoResponse

NextGate ==
  \E c \in Requests :
     \/ StartRequest(c)
     \/ GatherReturn(c)
     \/ \E h \in Handlers : ReturnEmpty(c, h)

SpecGate == InitGate /\ [][NextGate]_vars

\* SpecFilter: one aggregation call of either entry point with any of the
\* namespace allow-lists, against a backend that holds no series.
InitFilter ==
  /\ InitRequests({1}, {"http", "cli"}, MetricTypes, NamespaceLists)
  /\ metrics = <<>>
  /\ table = NoResponse

NextFilter ==
  \/ StartRequest(1)
  \/ GatherRaise(1)
  \/ GatherReturn(1)
  \/ \E h \in Handlers :
        \/ ReturnEmpty(1, h)
        \/ Raise(1, h)

SpecFilter == InitFilter /\ [][NextFilter]_vars

\* SpecFormat: a table formatter applied to a list an aggregation call can
\* return: records of distinct containers, none an overprovisioner, with the
\* fields of one metric family set.
FormatKeys ==
  { [namespace |-> "default", container_name |-> <<"app">>,
     top_level_controller_name |-> <<"web">>],
    [namespace |-> "default", container_name |-> <<"sidecar">>,
     top_level_controller_name |-> <<"web">>],
    [namespace |-> "jobs", container_name |-> <<"worker">>,
     top_level_controller_name |-> <<"batch">>],
    [namespace |-> "jobs", container_name |-> <<"app">>,
     top_level_controller_name |-> <<"cron">>] }

\* request, max usage (bytes), average request-utilization.  The unutilized
\* amounts are 400 MiB, 0 (usage above the request), exactly 200 MiB, 200 MiB
\* and one byte, and 100.5 MiB; the utilizations include the two thresholds
\* 0.3 and 0.6 themselves.
MemoryProfiles ==
  { [request |-> RatOf(500 * MiB), max_usage |-> RatOf(100 * MiB), utilization |-> Rat(1, 4)],
    [request |-> RatOf(300 * MiB), max_usage |-> RatOf(350 * MiB), utilization |-> Rat(3, 4)],
    [request |-> RatOf(256 * MiB), max_usage |-> RatOf(56 * MiB), utilization |-> Rat(9, 20)],
    [request |-> RatOf(300 * MiB), max_usage |-> RatOf(100 * MiB - 1), utilization |-> Rat(3, 10)],
    [request |-> RatOf(200 * MiB), max_usage |-> Rat(199 * MiB, 2), utilization |-> Rat(6, 10)] }

\* request, max usage (cores), average request-utilization.  The unutilized
\* amounts are 1500, 0, exactly 1000, 1000.5 and 100.5 millicores.
CpuProfiles ==
  { [request |-> RatOf(2), max_usage |-> Rat(1, 2), utilization |-> Rat(1, 4)],
    [request |-> Rat(1, 2), max_usage |-> RatOf(1), utilization |-> Rat(3, 4)],
    [request |-> RatOf(2), max_usage |-> RatOf(1), utilization |-> Rat(9, 20)],
    [request |-> RatOf(2), max_usage |-> Rat(1999, 2000), utilization |-> Rat(3, 10)],
    [request |-> Rat(1, 2), max_usage |-> Rat(799, 2000), utilization |-> Rat(6, 10)] }

\* The record an aggregation call of entry point e and family mt returns for
\* a container with profile p.
ReturnedRecord(e, mt, key, p) ==
  IF mt = "memory"
  THEN [ContainerMetrics(key) EXCEPT
          !.memory_request = p.request, !.max_memory_usage = p.max_usage,
          !.avg_memory_usage = p.max_usage,
          !.avg_memory_request_utilization = p.utilization,
          !.unutilized_memory = IF e = "cli" THEN Zero
                                ELSE Unutilized(p.request, p.max_usage)]
  ELSE [ContainerMetrics(key) EXCEPT
          !.cpu_request = p.request, !.max_cpu_usage = p.max_usage,
          !.avg_cpu_usage = p.max_usage,
          !.avg_cpu_request_utilization = p.utilization,
          !.unutilized_cpu = Unutilized(p.request, p.max_usage)]

ReturnedLists(e, mt) ==
  LET ps == IF mt = "memory" THEN MemoryProfiles ELSE CpuProfiles
  IN  UNION { { [i \in 1 .. n |-> ReturnedRecord(e, mt, ks[i], pf[i])] :
                  ks \in {f \in [1 .. n -> FormatKeys] :
                            \A i, j \in 1 .. n : i # j => f[i] # f[j]},
                  pf \in [1 .. n -> ps] } : n \in 0 .. MaxRecords }

InitFormat ==
  /\ InitRequests({1}, {"http", "cli"}, MetricTypes, {<<>>})
  /\ metrics \in ReturnedLists(entry[1], metric_type[1])
  /\ table = NoResponse

\* format_memory_metrics_as_table(metrics); the sort is in place.
FormatMemory ==
  /\ entry[1] = "http" /\ metric_type[1] = "memory"
  /\ table = NoResponse
  /\ table' = FormatMemoryMetricsAsTable(metrics)
  /\ metrics' = SortDesc(metrics, "unutilized_memory")
  /\ UNCHANGED reqVars

\* format_cpu_metrics_as_table(metrics); the sort is in place.
FormatCpu ==
  /\ entry[1] = "http" /\ metric_type[1] = "cpu"
  /\ table = NoResponse
  /\ table' = FormatCpuMetricsAsTable(metrics)
  /\ metrics' = SortDesc(metrics, "unutilized_cpu")
  /\ UNCHANGED reqVars

\* The table of print_utilization from list(self.container_metrics.values()).
PrintUtilization ==
  /\ entry[1] = "cli"
  /\ table = NoResponse
  /\ table' = PrintUtilizationTable(metrics)
  /\ metrics' = metrics
  /\ UNCHANGED reqVars

NextFormat == FormatMemory \/ FormatCpu \/ PrintUtilization

SpecFormat == InitFormat /\ [][NextFormat]_vars

\* ==================================================================== claims
Returned(c) == agg[c] = "returned"
Records(list) == {list[i] : i \in 1 .. Len(list)}
IsOverprovisioner(rec) == Contains(rec.container_name, OVERPROVISIONER)
\* max(0, a - b), spelled out.
ClampedDifference(a, b) == IF RatLess(b, a) THEN RatSub(a, b) ELSE Zero

\* C1: every record returned by query_memory_utilization has
\* unutilized_memory = max(0, memory_request - max_memory_usage), every record
\* returned by query_cpu_utilization has unutilized_cpu = max(0, cpu_request -
\* max_cpu_usage), and neither unutilized value is ever negative.
C1_UnutilizedIsClampedDifference ==
  \A c \in Requests :
     (Returned(c) /\ entry[c] = "http") =>
        \A r \in Records(result[c]) :
           /\ metric_type[c] = "memory" =>
                 r.unutilized_memory = ClampedDifference(r.memory_request, r.max_memory_usage)
           /\ metric_type[c] = "cpu" =>
                 r.unutilized_cpu = ClampedDifference(r.cpu_request, r.max_cpu_usage)
           /\ r.unutilized_memory[1] >= 0
           /\ r.unutilized_cpu[1] >= 0

\* A returned record whose usage peak exceeds its request: the clamp acts.
C1_Witness ==
  \E c \in Requests :
     /\ Returned(c) /\ entry[c] = "http"
     /\ \E r \in Records(result[c]) :
           /\ RatLess(Zero, r.memory_request)
           /\ RatLess(r.memory_request, r.max_memory_usage)
           /\ r.unutilized_memory = Zero

RowNames(rows) == {rows[i].name : i \in 1 .. Len(rows) - 1}

\* C2: no record whose container name contains "overprovisioner" is in the
\* list an aggregation call returns, in the JSON body, or in a row of the
\* table (HTTP or CLI), whatever the backend returned and in whatever order.
C2_NoOverprovisioner ==
  \A c \in Requests :
     Returned(c) =>
        /\ \A r \in Records(result[c]) : ~IsOverprovisioner(r)
        /\ response[c].kind = "json" =>
              \A r \in Records(response[c].body) : ~IsOverprovisioner(r)
        /\ response[c].kind = "table" =>
              RowNames(response[c].rows) =
                 {DeploymentContainer(r) : r \in Records(result[c])}

\* The backend yielded an overprovisioner series next to another container's,
\* and the call returned a table.
C2_Witness ==
  \E c \in Requests :
     /\ Returned(c)
     /\ \E h \in Handlers : \E s \in returned[c][h] :
           Contains(s.key.container_name, OVERPROVISIONER)
     /\ response[c].kind = "table"

Calling(c) == Cardinality({h \in Handlers : hpc[c][h] = "calling"})

RECURSIVE SumCalling(_)
SumCalling(cs) ==
  IF cs = {} THEN 0
  ELSE LET c == CHOOSE x \in cs : TRUE IN Calling(c) + SumCalling(cs \ {c})

\* list_time_series calls outstanding in the whole process.
Outstanding == SumCalling(Requests)

\* C3 (as claimed): at most 10 backend requests are outstanding in the
\* process at any time, concurrent HTTP requests included.
C3_ProcessWideCap == Outstanding <= SemaphoreValue

\* C3 (amended): the calls of one MetricsClient outstanding under its gate
\* are as many as the slots taken from it, so never more than 10; the gate
\* bounds each client, not the process.
C3_PerClientCap ==
  \A c \in Requests :
     /\ sem[c] >= 0
     /\ Calling(c) = SemaphoreValue - sem[c]
     /\ Calling(c) <= SemaphoreValue

\* Three concurrent requests, each with its own gate, hold 12 calls.
C3_Witness == Outstanding > SemaphoreValue

DerivedComputed(c) ==
  \E r \in Records(container_metrics[c]) :
     r.unutilized_memory # Zero \/ r.unutilized_cpu # Zero

\* C4: the derived field is computed and the overprovisioner records are
\* dropped only once all four handlers have consumed their result sequences,
\* so no handler writes a field afterwards.
C4_DerivedAfterAllHandlers ==
  \A c \in Requests :
     (Returned(c) \/ DerivedComputed(c)) =>
        \A h \in Handlers : hpc[c][h] = "done"

\* A call returned with a derived value computed from the fields two
\* handlers wrote.
C4_Witness ==
  \E c \in Requests :
     /\ Returned(c) /\ entry[c] = "http"
     /\ \E r \in Records(result[c]) :
           /\ r.max_memory_usage # Zero
           /\ r.unutilized_memory # Zero

\* C5: once one of the four queries has failed, the aggregation call returns
\* no list (the caller gets nothing but the error), no derived field is
\* computed, and no query is sent a second time.
C5_FailureIsFatal ==
  \A c \in Requests :
     (\E h \in Handlers : hpc[c][h] = "failed") =>
        /\ agg[c] \in {"gathering", "error"}
        /\ agg[c] = "error" => response[c] = Raised("BackendError")
        /\ agg[c] = "gathering" => response[c] = NoResponse
        /\ result[c] = <<>>
        /\ ~DerivedComputed(c)
        /\ \A h \in Handlers : Len(calls[c][h]) <= 1

\* A call that ended in the error while another query's records were merged.
C5_Witness ==
  \E c \in Requests :
     /\ agg[c] = "error"
     /\ container_metrics[c] # <<>>
     /\ \E h \in Handlers : hpc[c][h] = "done" /\ returned[c][h] # {}

FamilyFields(mt) == {HandlerField(mt, h) : h \in Handlers}
AllFields == FamilyFields("memory") \cup FamilyFields("cpu")

\* What the handlers of request c are to leave in the record of key.
MergedField(c, key, h) ==
  IF \E s \in returned[c][h] : s.key = key
  THEN HandlerValue(entry[c], metric_type[c], h,
                    (CHOOSE s \in returned[c][h] : s.key = key).points)
  ELSE Zero

\* C6: each field has one writing handler, so whatever the interleaving the
\* map holds exactly one record per key some query returned, each field with
\* the value its own handler computed for that key (0 without a series), and
\* the fields of the other family untouched.
C6_FieldsMergeDisjointly ==
  \A c \in Requests :
     LET cm == container_metrics[c]
         mt == metric_type[c]
         all == UNION {ReturnedKeys(c, h) : h \in Handlers}
     IN  /\ \A h1, h2 \in Handlers :
               h1 # h2 => HandlerField(mt, h1) # HandlerField(mt, h2)
         /\ \A i, j \in 1 .. Len(cm) : i # j => KeyOf(cm[i]) # KeyOf(cm[j])
         /\ {KeyOf(r) : r \in Records(cm)} =
               IF Returned(c)
               THEN {k \in all : ~Contains(k.container_name, OVERPROVISIONER)}
               ELSE all
         /\ \A r \in Records(cm) :
               /\ \A h \in Handlers :
                     r[HandlerField(mt, h)] = MergedField(c, KeyOf(r), h)
               /\ \A f \in AllFields \ FamilyFields(mt) : r[f] = Zero

\* All four handlers have returned and two of them wrote the same record.
C6_Witness ==
  \E c \in Requests :
     /\ \A h \in Handlers : hpc[c][h] = "done"
     /\ \E r \in Records(container_metrics[c]) :
           \E h1, h2 \in Handlers :
              /\ h1 # h2
              /\ r[HandlerField(metric_type[c], h1)] # Zero
              /\ r[HandlerField(metric_type[c], h2)] # Zero

\* The aggregate of a series' points under a cross-series reducer.
ReducerAggregate(reducer, points) ==
  IF reducer = "REDUCE_MEAN" THEN Mean(points) ELSE PointMax(points)

\* C7 (as claimed): for each of the eight MetricsClient queries and every
\* series with more than one point, the field written is the aggregate of
\* all the points under the reducer the query asked for: their mean for
\* REDUCE_MEAN, their maximum for REDUCE_MAX.
C7_FieldIsReducerAggregate ==
  \A c \in Requests :
     (entry[c] = "http" /\ agg[c] # "idle") =>
        \A h \in Handlers : \A s \in returned[c][h] :
           (Len(s.points) > 1 /\ HasKey(container_metrics[c], s.key)) =>
              container_metrics[c][IndexOfKey(container_metrics[c], s.key)]
                    [HandlerField(metric_type[c], h)]
                 = ReducerAggregate(calls[c][h][1].reducer, s.points)

\* filter is the metric clause, the kube-system exclusion and, for a
\* non-empty allow-list nss, one parenthesised OR of exactly nss's namespaces.
WellFormedFilter(filter, metric, nss) ==
  LET n == Len(nss)
  IN  /\ Len(filter) = IF n = 0 THEN 3 ELSE 5 + 2 * n
      /\ filter[1] = <<"metric.type", "=", metric>>
      /\ filter[2] = <<"AND">>
      /\ filter[3] = <<"resource.labels.namespace_name", "!=", "kube-system">>
      /\ n > 0 =>
            /\ filter[4] = <<"AND">>
            /\ filter[5] = <<"(">>
            /\ filter[Len(filter)] = <<")">>
            /\ \A i \in 1 .. n :
                  filter[4 + 2 * i] = <<"resource.labels.namespace_name", "=", nss[i]>>
            /\ \A i \in 1 .. n - 1 : filter[5 + 2 * i] = <<"OR">>

\* C8 (as claimed): every query either entry point sends carries a filter
\* that is the conjunction of the metric type, the exclusion of kube-system
\* and, for a non-empty namespace list, one OR-clause of exactly the given
\* namespaces; without a list only the kube-system exclusion restricts it.
C8_FilterOfEveryQuery ==
  \A c \in Requests : \A h \in Handlers :
     \A i \in 1 .. Len(calls[c][h]) :
        WellFormedFilter(calls[c][h][i].filter,
                         QueryMetric(metric_type[c], h), namespaces[c])

\* The unutilized value the table of the record named name is sorted by.
SortKeyOfName(name) ==
  LET m == CHOOSE r \in Records(metrics) : DeploymentContainer(r) = name
  IN  IF metric_type[1] = "cpu" THEN m.unutilized_cpu
      ELSE IF entry[1] = "cli" THEN UnutilizedProperty(m)
      ELSE m.unutilized_memory

\* C9: for a non-empty record list the formatter builds a table with one row
\* per record, in non-increasing order of the family's unutilized value, and
\* after them exactly one "Total" row, the last; colouring changes no order.
C9_SortedRowsThenTotal ==
  (metrics # <<>> /\ table # NoResponse) =>
     /\ table.kind = "table"
     /\ LET rows == table.rows
            n == Len(metrics)
        IN  /\ Len(rows) = n + 1
            /\ rows[n + 1].namespace = "Total"
            /\ \A i \in 1 .. n : rows[i].namespace # "Total"
            /\ \A i, j \in 1 .. n : i # j => rows[i].name # rows[j].name
            /\ {rows[i].name : i \in 1 .. n} =
                  {DeploymentContainer(r) : r \in Records(metrics)}
            /\ \A i \in 1 .. n - 1 :
                  /\ RatLeq(SortKeyOfName(rows[i + 1].name), SortKeyOfName(rows[i].name))
                  /\ rows[i + 1].unutilized.text <= rows[i].unutilized.text

\* The CLI printed three records in another order than the dict held them.
C9_Witness ==
  /\ entry[1] = "cli"
  /\ table.kind = "table"
  /\ Len(metrics) = 3
  /\ table.rows[1].name # DeploymentContainer(metrics[1])
  /\ table.rows[3].name # DeploymentContainer(metrics[3])

\* C10 (as claimed): given an empty record list, a table formatter fails
\* with an explicit "no data" error, not with a division by zero.
C10_EmptyListIsNoDataError ==
  (metrics = <<>> /\ table # NoResponse) =>
     /\ table.kind = "error"
     /\ table.error # "ZeroDivisionError"

\* The colour tiers of the three gradients with the thresholds applied to the
\* exact value.
ExactPercentageTier(v) ==
  IF RatLess(v, Rat(3, 10)) THEN "red"
  ELSE IF RatLess(v, Rat(6, 10)) THEN "yellow" ELSE "green"

ExactMemoryTier(v) ==
  IF RatLess(RatOf(200 * MiB), v) THEN "red"
  ELSE IF RatLess(RatOf(100 * MiB), v) THEN "yellow" ELSE "green"

ExactCpuTier(v) ==
  IF RatLess(RatOf(1), v) THEN "red"
  ELSE IF RatLess(Rat(1, 10), v) THEN "yellow" ELSE "green"

\* The tiers with the thresholds applied to the amount in whole MiB, resp.
\* whole millicores: red from 201, yellow from 101, green below.
WholeMemoryTier(v) ==
  IF RatLeq(RatOf(201 * MiB), v) THEN "red"
  ELSE IF RatLeq(RatOf(101 * MiB), v) THEN "yellow" ELSE "green"

WholeCpuTier(v) ==
  IF RatLeq(Rat(1001, 1000), v) THEN "red"
  ELSE IF RatLeq(Rat(101, 1000), v) THEN "yellow" ELSE "green"

\* A table of the HTTP formatter is built: row i shows record i of the
\* sorted list.
HttpTableBuilt == entry[1] = "http" /\ table # NoResponse /\ table.kind = "table"

UtilizationOf(rec) ==
  IF metric_type[1] = "memory" THEN rec.avg_memory_request_utilization
  ELSE rec.avg_cpu_request_utilization

UnutilizedOf(rec) ==
  IF metric_type[1] = "memory" THEN rec.unutilized_memory ELSE rec.unutilized_cpu

\* C11 (as claimed): every coloured cell has the tier of its exact value:
\* utilization below 0.3 red, below 0.6 yellow, else green; unutilized memory
\* above 200 MB red, above 100 MB yellow, else green; unutilized CPU above
\* 1000 millicores red, above 100 yellow, else green.
C11_ExactThresholds ==
  HttpTableBuilt =>
     \A i \in 1 .. Len(metrics) :
        /\ table.rows[i].utilization.color = ExactPercentageTier(UtilizationOf(metrics[i]))
        /\ table.rows[i].unutilized.color =
              IF metric_type[1] = "memory" THEN ExactMemoryTier(UnutilizedOf(metrics[i]))
              ELSE ExactCpuTier(UnutilizedOf(metrics[i]))

\* C11 (amended): the utilization cell has the tier of its exact value (0.3
\* is yellow, 0.6 is green); the unutilized cell has the tier of the amount
\* cut down to whole MiB, resp. whole millicores, so memory is red from
\* 201 MiB and yellow from 101 MiB, CPU red from 1001 and yellow from 101
\* millicores.
C11_WholeUnitThresholds ==
  HttpTableBuilt =>
     \A i \in 1 .. Len(metrics) :
        /\ table.rows[i].utilization.color = ExactPercentageTier(UtilizationOf(metrics[i]))
        /\ table.rows[i].unutilized.color =
              IF metric_type[1] = "memory" THEN WholeMemoryTier(UnutilizedOf(metrics[i]))
              ELSE WholeCpuTier(UnutilizedOf(metrics[i]))

\* A memory table shows a record with more than 200 MiB and less than
\* 201 MiB unutilized in yellow, beside a utilization of exactly 0.3 in
\* yellow.
C11_Witness ==
  /\ HttpTableBuilt
  /\ metric_type[1] = "memory"
  /\ \E i \in 1 .. Len(metrics) :
        /\ RatLess(RatOf(200 * MiB), metrics[i].unutilized_memory)
        /\ RatLess(metrics[i].unutilized_memory, RatOf(201 * MiB))
        /\ table.rows[i].unutilized = Colored(200, "yellow")
        /\ metrics[i].avg_memory_request_utilization = Rat(3, 10)
        /\ table.rows[i].utilization = Colored(30, "yellow")

\* The container keys the backend yielded to any handler of request c that
\* are no overprovisioner.
KeptKeys(c) ==
  {k \in UNION {ReturnedKeys(c, h) : h \in Handlers} :
     ~Contains(k.container_name, OVERPROVISIONER)}

\* C12: an HTTP request with output_format csv ends, for either metric
\* type and also for an empty list, with no response content and no error;
\* with output_format json the response is the list the aggregation call
\* returned: one plain record per container kept, in the aggregation's order,
\* no Total row and no coloured cell.
C12_CsvNoContentJsonRawList ==
  \A c \in Requests :
     (entry[c] = "http" /\ Returned(c)) =>
        /\ output_format[c] = "csv" => response[c] = [kind |-> "null"]
        /\ output_format[c] = "json" =>
              /\ response[c].kind = "json"
              /\ response[c].body = result[c]
              /\ response[c].body = container_metrics[c]
              /\ Len(response[c].body) = Cardinality(KeptKeys(c))
              /\ \A i \in 1 .. Len(response[c].body) :
                    LET rec == response[c].body[i]
                    IN  /\ KeyOf(rec) \in KeptKeys(c)
                        /\ DOMAIN rec = DOMAIN ContainerMetrics(KeyOf(rec))
                        /\ rec.namespace # "Total"

\* A CPU request with output_format csv ended without content although the
\* aggregation returned a record.
C12_Witness ==
  /\ entry[1] = "http" /\ Returned(1)
  /\ metric_type[1] = "cpu"
  /\ output_format[1] = "csv"
  /\ result[1] # <<>>
  /\ response[1] = [kind |-> "null"]

\* Every query of request c has ended: its handler got its result sequence
\* or the exception of its backend call.
AllQueriesEnded(c) ==
  agg[c] # "idle" /\ \A h \in Handlers : hpc[c][h] # "calling"

\* C13: the free slots of a MetricsClient's gate stay between 0 and 10; a
\* slot is held exactly while the backend call under it is outstanding, so
\* it is given back when the call returns and when it raises, and once all
\* four queries have ended, failed ones included, the count is 10 again.
C13_SlotsGivenBack ==
  \A c \in Requests :
     entry[c] = "http" =>
        /\ sem[c] \in 0 .. SemaphoreValue
        /\ sem[c] + Calling(c) = SemaphoreValue
        /\ AllQueriesEnded(c) => sem[c] = SemaphoreValue

\* The request query's backend call raised, the other three returned, the
\* aggregation call ended in the error, and all ten slots are free.
C13_Witness ==
  /\ entry[1] = "http"
  /\ agg[1] = "error"
  /\ hpc[1]["request"] = "failed" /\ returned[1]["request"] = {}
  /\ \A h \in Handlers \ {"request"} : hpc[1][h] = "done"
  /\ sem[1] = SemaphoreValue

\* C14: when every backend call returns and every result sequence is
\* finite, a fairly scheduled aggregation call eventually returns its list:
\* the four handlers all pass the gate, none waits on another, and the
\* gather ends.
C14_EventuallyReturns == <>(Returned(1) /\ response[1] # NoResponse)

\* The call returned a list after a handler had suspended between two
\* series of its result sequence and all four slots had come back.
C14_Witness ==
  /\ entry[1] = "http" /\ Returned(1)
  /\ \E h \in Handlers : Cardinality(returned[1][h]) = 2
  /\ sem[1] = SemaphoreValue
  /\ result[1] # <<>>

\* The handlers of request c whose query yielded no series for key.
MissingHandlers(c, key) == {h \in Handlers : key \notin ReturnedKeys(c, h)}

\* C15: a kept container that not all four queries of the family returned
\* is in the returned list exactly once, and each field whose query yielded
\* no series for it is 0; without a series of the request query its
\* unutilized value is 0, without one of the max-usage query it is the
\* request.
C15_PartialKeysKeepDefaults ==
  \A c \in Requests :
     (entry[c] = "http" /\ Returned(c)) =>
        \A key \in KeptKeys(c) :
           MissingHandlers(c, key) # {} =>
              /\ Cardinality({i \in 1 .. Len(result[c]) :
                                KeyOf(result[c][i]) = key}) = 1
              /\ LET rec == result[c][IndexOfKey(result[c], key)]
                     mt == metric_type[c]
                     unutilized == IF mt = "memory" THEN rec.unutilized_memory
                                   ELSE rec.unutilized_cpu
                 IN  /\ \A h \in MissingHandlers(c, key) :
                           rec[HandlerField(mt, h)] = Zero
                     /\ "request" \in MissingHandlers(c, key) => unutilized = Zero
                     /\ "max_usage" \in MissingHandlers(c, key) =>
                           unutilized = rec[HandlerField(mt, "request")]

\* Only the max-usage query returned the container: its record is in the
\* list with max usage set, request 0 and nothing unutilized.
C15_Witness ==
  /\ entry[1] = "http" /\ Returned(1) /\ metric_type[1] = "memory"
  /\ \E i \in 1 .. Len(result[1]) :
        /\ MissingHandlers(1, KeyOf(result[1][i])) = Handlers \ {"max_usage"}
        /\ result[1][i].max_memory_usage # Zero
        /\ result[1][i].memory_request = Zero
        /\ result[1][i].unutilized_memory = Zero

=============================================================================
